---- MODULE Spec2Model ----
(***************************************************************************)
(* Scene loading of the path tracer (src/src/scene.cpp): the Scene         *)
(* constructor, loadFromJSON split at its loop iterations, and the three   *)
(* asset accessors.  One sequential thread of control, tracked by pc.      *)
(***************************************************************************)
EXTENDS Integers, Sequences, FiniteSets, TLC

\* ---------------------------------------------------------------- bounds
MaxMaterials == 2
MaxObjects == 2
MaxTris == 2

\* ------------------------------------------------------- file names (ctor)
\* std::string::npos, size_t(-1): larger than every string length.
npos == 2147483647

JSON_EXT == <<".", "j", "s", "o", "n">>

\* Constructor arguments tried: with and without '.', right and wrong suffix.
FileNames ==
    { <<"a">> \o JSON_EXT,
      <<"a", ".", "t", "x", "t">>,
      <<"a">> \o JSON_EXT \o <<".", "t", "x", "t">>,
      <<"a", ".">>,
      <<"j", "s", "o", "n">>,
      <<"a">>,
      <<>> }

\* filename.find_last_of('.'): 0-based position of the last c, or npos.
FindLastOf(s, c) ==
    LET hits == {k \in 1..Len(s) : s[k] = c}
    IN  IF hits = {} THEN npos
        ELSE (CHOOSE k \in hits : \A h \in hits : h <= k) - 1

\* filename.substr(pos), defined for pos <= size (it throws otherwise).
Substr(s, pos) == SubSeq(s, pos + 1, Len(s))

\* pos > size(): std::string::substr throws std::out_of_range.
SubstrThrows(s, pos) == pos > Len(s)

\* ---------------------------------------------------------- scene file
\* The material names used in the files tried; their integer order stands for
\* std::string's operator<, the key order of the parsed Materials object.
Names == {1, 2}

RecognizedTypes ==
    {"LIGHT", "DIFFUSE_REFL", "SPEC_REFL", "SPEC_TRANS", "SPEC_GLASS",
     "MICROFACET_REFL", "DIAMOND", "CERAMIC"}

\* TYPE tags written in the files tried: a recognized one and a wrong one.
InputTags == {"DIFFUSE_REFL", "BOGUS"}

MaterialDefs == [name : Names, type : InputTags]

MaterialFiles == UNION {[1..n -> MaterialDefs] : n \in 0..MaxMaterials}

ObjectDefs == [type : {"mesh", "cube", "sphere"}, material : Names]

ObjectFiles == UNION {[1..n -> ObjectDefs] : n \in 0..MaxObjects}

EmptyMap == [n \in {} |-> 0]

\* json::parse of an object into nlohmann::json (std::map): one entry per key,
\* the last definition of a repeated key wins.
ParseObject(defs) ==
    [nm \in {defs[k].name : k \in DOMAIN defs} |->
        defs[CHOOSE k \in DOMAIN defs :
                /\ defs[k].name = nm
                /\ \A h \in DOMAIN defs : defs[h].name = nm => h <= k].type]

\* items() of a nlohmann::json object: the keys in ascending order.
SortedKeys(obj) ==
    CHOOSE s \in [1..Cardinality(DOMAIN obj) -> DOMAIN obj] :
        \A a, b \in 1..Cardinality(DOMAIN obj) : a < b => s[a] < s[b]

\* The if / else-if chain on p["TYPE"]: the type stored, or none (fatal).
MaterialType(tag) == IF tag \in RecognizedTypes THEN tag ELSE "UNKNOWN"

DefaultMaterial == "unset"

\* ------------------------------------------------------------- variables
VARIABLES
    filename,           \* the constructor's argument
    pc,                 \* position of the thread of control
    fatal,              \* why the process ended, "" while it runs
    jsonLoadedNonCuda,
    jsonName_str,
    fileMaterials,      \* the file's Materials section, in file order
    fileObjects,        \* the file's Objects array
    MatNameToID,
    idx,
    materials,
    objPos,             \* object entries already processed
    geoms,
    loader,
    loadModelLog,       \* object entries for which loadModel was invoked
    images,
    triangles,          \* pointer: 0 is nullptr, else a buffer of heap
    heap,               \* triangle buffers handed out by the importer
    i,                  \* the bake loop's counter
    bvhNode,
    stateImage,
    ret                 \* the last accessor return

vars == <<filename, pc, fatal, jsonLoadedNonCuda, jsonName_str, fileMaterials,
          fileObjects, MatNameToID, idx, materials, objPos, geoms, loader,
          loadModelLog, images, triangles, heap, i, bvhNode, stateImage, ret>>

sceneVars == <<MatNameToID, idx, materials, objPos, geoms, loader,
               loadModelLog, images, triangles, heap, i, bvhNode, stateImage>>

NULL == 0

NoBvh == [built |-> FALSE, over |-> <<>>]

NoRet == [acc |-> "none", val |-> 0]

materialsData == ParseObject(fileMaterials)

Init ==
    /\ filename \in FileNames
    /\ pc = "start"
    /\ fatal = ""
    /\ jsonLoadedNonCuda = FALSE
    /\ jsonName_str = <<>>
    /\ fileMaterials = <<>>
    /\ fileObjects = <<>>
    /\ MatNameToID = EmptyMap
    /\ idx = 0
    /\ materials = <<>>
    /\ objPos = 0
    /\ geoms = <<>>
    /\ loader = "null"
    /\ loadModelLog = <<>>
    /\ images = 0
    /\ triangles = NULL
    /\ heap = <<>>
    /\ i = 0
    /\ bvhNode = NoBvh
    /\ stateImage = "unset"
    /\ ret = NoRet


\* ---------------------------------------------------------- control flow
\* The order of loadFromJSON's sections: materials, objects, camera.
PhaseAfterSwapped(ph) ==
    CASE ph = "start" -> "objects"
      [] ph = "objects" -> "materials"
      [] ph = "materials" -> "camera"
      [] OTHER -> "done"

PhaseAfter(ph) ==
    CASE ph = "start" -> "materials"
      [] ph = "materials" -> "objects"
      [] ph = "objects" -> "camera"
      [] OTHER -> "done"

\* The unknown-type branch ends the process: exit(EXIT_FAILURE).
UnknownMaterialReturns == "done"

UnknownMaterialOutcome == "exited"

\* ------------------------------------------------------------ Scene::Scene
\* loadFromJSON up to the material loop: flag, file name, parse, resize.
LoadBegin ==
    /\ jsonLoadedNonCuda' = TRUE
    /\ jsonName_str' = filename
    /\ \E mf \in MaterialFiles, of \in ObjectFiles :
         /\ fileMaterials' = mf
         /\ fileObjects' = of
         /\ materials' = [k \in 1..Cardinality(DOMAIN ParseObject(mf))
                            |-> DefaultMaterial]
    /\ MatNameToID' = EmptyMap
    /\ idx' = 0
    /\ pc' = PhaseAfter("start")
    /\ UNCHANGED <<fatal, objPos, geoms, loader, loadModelLog, images,
                   triangles, heap, i, bvhNode, stateImage, ret, filename>>

SceneCtor ==
    /\ pc = "start"
    /\ LET pos == FindLastOf(filename, ".")
       IN  IF SubstrThrows(filename, pos)
           THEN /\ pc' = "thrown"
                /\ fatal' = "std::out_of_range"
                /\ UNCHANGED <<filename, jsonLoadedNonCuda, jsonName_str,
                               fileMaterials, fileObjects, sceneVars, ret>>
           ELSE IF Substr(filename, pos) = JSON_EXT
           THEN LoadBegin
           ELSE /\ pc' = "exited"
                /\ fatal' = "Couldn't read from"
                /\ UNCHANGED <<filename, jsonLoadedNonCuda, jsonName_str,
                               fileMaterials, fileObjects, sceneVars, ret>>

\* ----------------------------------------------------- the material loop
MapPut(map, key, val) ==
    [k \in DOMAIN map \cup {key} |-> IF k = key THEN val ELSE map[k]]

\* MatNameToID[name] = idx, before idx++.
RegisterAfterIncrement(map, name, n) == MapPut(map, name, n + 1)

RegisterMaterial(map, name, n) == MapPut(map, name, n)

MaterialStep ==
    /\ pc = "materials"
    /\ idx < Cardinality(DOMAIN materialsData)
    /\ LET name == SortedKeys(materialsData)[idx + 1]
           type == MaterialType(materialsData[name])
       IN  IF type = "UNKNOWN"
           THEN /\ pc' = UnknownMaterialOutcome
                /\ fatal' = "UNKNOWN MATERIAL TYPE ERROR"
                /\ UNCHANGED <<MatNameToID, materials, idx>>
           ELSE /\ MatNameToID' = RegisterMaterial(MatNameToID, name, idx)
                /\ materials' = [materials EXCEPT ![idx + 1] = type]
                /\ idx' = idx + 1
                /\ UNCHANGED <<pc, fatal>>
    /\ UNCHANGED <<filename, jsonLoadedNonCuda, jsonName_str, fileMaterials,
                   fileObjects, objPos, geoms, loader, loadModelLog, images,
                   triangles, heap, i, bvhNode, stateImage, ret>>

MaterialsDone ==
    /\ pc = "materials"
    /\ idx >= Cardinality(DOMAIN materialsData)
    /\ pc' = PhaseAfter("materials")
    /\ UNCHANGED <<filename, fatal, jsonLoadedNonCuda, jsonName_str,
                   fileMaterials, fileObjects, sceneVars, ret>>


\* ------------------------------------------------------- the Mesh Importer
\* What one loadModel / getTriangles pair can answer: failure, or success
\* with no buffer (nullptr, n = -1) or a buffer of n triangles.
ImportOutcomes ==
    {[ok |-> FALSE, n |-> -1]} \cup
    {[ok |-> TRUE, n |-> k] : k \in (-1)..MaxTris}

\* A freshly imported buffer for object entry k: n triangles, each carrying
\* the transforms applied to it so far (none).
FreshBuffer(k, n) == [entry |-> k, tris |-> [t \in 1..n |-> <<>>]]

\* getBVHTree: the hierarchy over the triangles as they are when requested.
GetBVHTree(tris) == [built |-> TRUE, over |-> tris]

\* -------------------------------------------------------- the object loop
\* MatNameToID[key] on a std::unordered_map: a missing key is inserted with 0.
IndexInserting(map, key) == IF key \in DOMAIN map THEN map ELSE MapPut(map, key, 0)

\* geoms.push_back(newGeom)
PushFront(list, g) == <<g>> \o list

PushBack(list, g) == Append(list, g)

\* type == "mesh": the entry takes the importing branch.
IsCubeEntry(p) == p.type = "cube"

IsMeshEntry(p) == p.type = "mesh"

\* i < triangles->size()
BakeLoopStopsEarly(k, n) == k < n - 1

BakeLoopContinues(k, n) == k < n

\* (*triangles)[k] = transformedTri: the transform is applied to triangle k.
BakeIntoFirst(tris, k, transform) ==
    [tris EXCEPT ![1] = Append(@, transform)]

Bake(tris, k, transform) ==
    [tris EXCEPT ![k + 1] = Append(@, transform)]

MeshImport ==
    /\ pc = "objects"
    /\ objPos < Len(fileObjects)
    /\ IsMeshEntry(fileObjects[objPos + 1])
    /\ loader' = "created"
    /\ loadModelLog' = Append(loadModelLog, objPos + 1)
    /\ \E r \in ImportOutcomes :
         IF ~r.ok
         THEN /\ pc' = "exited"
              /\ fatal' = "Error loading gltf model!"
              /\ UNCHANGED <<images, triangles, heap, i, objPos>>
         ELSE /\ images' = Len(loadModelLog')
              /\ fatal' = fatal
              /\ IF r.n < 0
                 THEN /\ triangles' = NULL
                      /\ heap' = heap
                      /\ objPos' = objPos + 1
                      /\ UNCHANGED <<pc, i>>
                 ELSE /\ heap' = Append(heap, FreshBuffer(objPos + 1, r.n))
                      /\ triangles' = Len(heap')
                      /\ i' = 0
                      /\ pc' = "bake"
                      /\ objPos' = objPos
    /\ UNCHANGED <<filename, jsonLoadedNonCuda, jsonName_str, fileMaterials,
                   fileObjects, MatNameToID, idx, materials, geoms, bvhNode,
                   stateImage, ret>>

BakeStep ==
    /\ pc = "bake"
    /\ BakeLoopContinues(i, Len(heap[triangles].tris))
    /\ LET p == fileObjects[objPos + 1]
           map == IndexInserting(MatNameToID, p.material)
           newGeom == [type |-> "TRI",
                       triangle_index |-> i,
                       materialid |-> map[p.material],
                       transform |-> objPos + 1]
       IN  /\ MatNameToID' = map
           /\ heap' = [heap EXCEPT ![triangles].tris =
                           Bake(@, i, newGeom.transform)]
           /\ geoms' = PushBack(geoms, newGeom)
    /\ i' = i + 1
    /\ UNCHANGED <<filename, pc, fatal, jsonLoadedNonCuda, jsonName_str,
                   fileMaterials, fileObjects, idx, materials, objPos, loader,
                   loadModelLog, images, triangles, bvhNode, stateImage, ret>>

BvhRequest ==
    /\ pc = "bake"
    /\ ~BakeLoopContinues(i, Len(heap[triangles].tris))
    /\ bvhNode' = GetBVHTree(heap[triangles].tris)
    /\ objPos' = objPos + 1
    /\ pc' = "objects"
    /\ UNCHANGED <<filename, fatal, jsonLoadedNonCuda, jsonName_str,
                   fileMaterials, fileObjects, MatNameToID, idx, materials,
                   geoms, loader, loadModelLog, images, triangles, heap, i,
                   stateImage, ret>>

ShapeEntry ==
    /\ pc = "objects"
    /\ objPos < Len(fileObjects)
    /\ ~IsMeshEntry(fileObjects[objPos + 1])
    /\ LET p == fileObjects[objPos + 1]
           map == IndexInserting(MatNameToID, p.material)
           newGeom == [type |-> IF p.type = "cube" THEN "CUBE"
                                ELSE IF p.type = "sphere" THEN "SPHERE"
                                ELSE "unassigned",
                       triangle_index |-> -1,
                       materialid |-> map[p.material],
                       transform |-> objPos + 1]
       IN  /\ MatNameToID' = map
           /\ geoms' = PushBack(geoms, newGeom)
    /\ objPos' = objPos + 1
    /\ UNCHANGED <<filename, pc, fatal, jsonLoadedNonCuda, jsonName_str,
                   fileMaterials, fileObjects, idx, materials, loader,
                   loadModelLog, images, triangles, heap, i, bvhNode,
                   stateImage, ret>>

ObjectsDone ==
    /\ pc = "objects"
    /\ objPos >= Len(fileObjects)
    /\ pc' = PhaseAfter("objects")
    /\ UNCHANGED <<filename, fatal, jsonLoadedNonCuda, jsonName_str,
                   fileMaterials, fileObjects, sceneVars, ret>>

\* ------------------------------------------------------------ the camera
CameraSetup ==
    /\ pc = "camera"
    /\ stateImage' = "zeroed"
    /\ pc' = PhaseAfter("camera")
    /\ UNCHANGED <<filename, fatal, jsonLoadedNonCuda, jsonName_str,
                   fileMaterials, fileObjects, MatNameToID, idx, materials,
                   objPos, geoms, loader, loadModelLog, images, triangles,
                   heap, i, bvhNode, ret>>

\* ---------------------------------------------------------- the accessors
\* The scan of the re-parsed Objects array for a mesh entry.
HasMesh(objs) == \E k \in DOMAIN objs : objs[k].type = "mesh"

\* One accessor call on the constructed scene: the flag test, then the scan.
Accessor(name, asset, empty) ==
    /\ pc = "done"
    /\ IF ~jsonLoadedNonCuda
       THEN /\ pc' = "exited"
            /\ fatal' = "loadJSON not called before CUDA load mesh!"
            /\ ret' = ret
       ELSE /\ ret' = [acc |-> name,
                       val |-> IF HasMesh(fileObjects) THEN asset ELSE empty]
            /\ UNCHANGED <<pc, fatal>>
    /\ UNCHANGED <<filename, jsonLoadedNonCuda, jsonName_str, fileMaterials,
                   fileObjects, sceneVars>>

getBvhNode == Accessor("getBvhNode", bvhNode, NoBvh)

getImages == Accessor("getImages", images, 0)

getTriangleBuffer == Accessor("getTriangleBuffer", triangles, NULL)

Next ==
    \/ SceneCtor
    \/ MaterialStep
    \/ MaterialsDone
    \/ MeshImport
    \/ BakeStep
    \/ BvhRequest
    \/ ShapeEntry
    \/ ObjectsDone
    \/ CameraSetup
    \/ getBvhNode
    \/ getImages
    \/ getTriangleBuffer

Spec == Init /\ [][Next]_vars


\* ================================================================ claims
LoadCompleted ==
    /\ idx = Cardinality(DOMAIN materialsData)
    /\ objPos = Len(fileObjects)
    /\ stateImage = "zeroed"

MaterialLoopComplete ==
    /\ pc = "materials"
    /\ idx >= Cardinality(DOMAIN materialsData)

TriGeoms == {a \in DOMAIN geoms : geoms[a].type = "TRI"}

\* C1: a load that completes has resolved every object's MATERIAL name among
\* the keys of the Materials section; with an unresolved name it fails
\* instead of completing with a defaulted material index.
C1_UnresolvedMaterialFails ==
    pc = "done" =>
        \A k \in DOMAIN fileObjects :
            fileObjects[k].material \in DOMAIN materialsData

\* C2 as stated: when the material loop has completed over definitions with
\* distinct names, each name's index is its definition's position in the
\* file's order.
C2_IndexIsFilePosition ==
    ( /\ MaterialLoopComplete
      /\ \A a, b \in DOMAIN fileMaterials :
            fileMaterials[a].name = fileMaterials[b].name => a = b )
    => \A k \in DOMAIN fileMaterials :
          /\ fileMaterials[k].name \in DOMAIN MatNameToID
          /\ MatNameToID[fileMaterials[k].name] = k - 1

\* C2 as amended: when the material loop has completed, the name-to-index map
\* is a bijection from the distinct material names onto [0, materialCount),
\* each name's index is its rank among the names in ascending key order, and
\* the material list holds each name's material at that index.
C2_IndexIsKeyRank ==
    MaterialLoopComplete =>
        /\ DOMAIN MatNameToID = DOMAIN materialsData
        /\ Len(materials) = Cardinality(DOMAIN materialsData)
        /\ {MatNameToID[nm] : nm \in DOMAIN MatNameToID}
              = 0..(Len(materials) - 1)
        /\ \A nm \in DOMAIN MatNameToID :
              /\ MatNameToID[nm]
                    = Cardinality({m \in DOMAIN materialsData : m < nm})
              /\ materials[MatNameToID[nm] + 1]
                    = MaterialType(materialsData[nm])

C2_Witness ==
    /\ MaterialLoopComplete
    /\ Len(fileMaterials) = 2
    /\ fileMaterials[1].name > fileMaterials[2].name

\* C3: whenever an accessor has returned an asset, the load-state flag was
\* set and loadFromJSON had run to its end; an accessor reached with the flag
\* unset ends the process instead of returning.
C3_AccessorAfterCompletedLoad ==
    /\ ret.acc # "none" => (jsonLoadedNonCuda /\ LoadCompleted)
    /\ fatal = "loadJSON not called before CUDA load mesh!"
          => (~jsonLoadedNonCuda /\ ret.acc = "none")

C3_Witness ==
    /\ ret.acc = "getTriangleBuffer"
    /\ ret.val # NULL
    /\ LoadCompleted

\* C4 as stated: over a whole load, loadModel is invoked exactly once, for
\* the first mesh entry, when there is a mesh entry (and not otherwise).
C4_ImportedOnce ==
    pc = "done" =>
        IF HasMesh(fileObjects)
        THEN loadModelLog =
                <<CHOOSE k \in DOMAIN fileObjects :
                    /\ fileObjects[k].type = "mesh"
                    /\ \A h \in 1..(k - 1) : fileObjects[h].type # "mesh">>
        ELSE loadModelLog = <<>>

\* The object entries the loop has reached so far.
Reached ==
    {k \in DOMAIN fileObjects :
        \/ k <= objPos
        \/ k = objPos + 1 /\ (pc = "bake" \/ fatal = "Error loading gltf model!")}

\* C4 as amended: the loader object is created once, at the first mesh entry,
\* and loadModel is invoked exactly once for every mesh entry the loop
\* reaches, in the order of the entries.
C4_ImportedPerMeshEntry ==
    /\ {loadModelLog[a] : a \in DOMAIN loadModelLog}
          = {k \in Reached : fileObjects[k].type = "mesh"}
    /\ \A a, b \in DOMAIN loadModelLog :
          a < b => loadModelLog[a] < loadModelLog[b]
    /\ (loader = "created") = (loadModelLog # <<>>)

C4_Witness ==
    /\ pc = "done"
    /\ Len(loadModelLog) = 2

C6_MaterialErrorBeforeGeometry ==
    fatal = "UNKNOWN MATERIAL TYPE ERROR" =>
        /\ geoms = <<>>
        /\ loader = "null"
        /\ loadModelLog = <<>>
        /\ heap = <<>>

C6_Witness ==
    /\ fatal = "UNKNOWN MATERIAL TYPE ERROR"
    /\ pc = "exited"
    /\ idx >= 1
    /\ HasMesh(fileObjects)

\* The file name's extension, the suffix from its last '.', is ".json".
HasJsonExtension(s) ==
    \E k \in 1..Len(s) :
        /\ s[k] = "."
        /\ \A h \in (k + 1)..Len(s) : s[h] # "."
        /\ SubSeq(s, k, Len(s)) = JSON_EXT

\* C7: for every file name whose extension is not ".json", names without
\* any '.' included, the constructor exits the process without calling
\* loadFromJSON.
C7_OtherNamesExit ==
    (pc # "start" /\ ~HasJsonExtension(filename)) =>
        /\ pc = "exited"
        /\ fatal = "Couldn't read from"
        /\ ~jsonLoadedNonCuda

\* C8: the primitive list follows the order of the object entries, the
\* primitives of one mesh entry are a contiguous run with triangle indices
\* 0, 1, ... in buffer order, and when the load has completed a mesh entry
\* has one primitive per triangle of its buffer and a cube or sphere one.
C8_OrderPreserved ==
    /\ \A a, b \in DOMAIN geoms :
          a < b => geoms[a].transform <= geoms[b].transform
    /\ \A a \in TriGeoms :
          geoms[a].triangle_index =
              Cardinality({c \in 1..(a - 1) :
                              geoms[c].transform = geoms[a].transform})
    /\ pc = "done" =>
          /\ \A b \in DOMAIN heap :
                Cardinality({a \in DOMAIN geoms :
                                geoms[a].transform = heap[b].entry})
                   = Len(heap[b].tris)
          /\ \A k \in DOMAIN fileObjects :
                fileObjects[k].type # "mesh" =>
                    Cardinality({a \in DOMAIN geoms :
                                    geoms[a].transform = k}) = 1

C8_Witness ==
    /\ pc = "done"
    /\ Len(geoms) = 4
    /\ geoms[1].type = "TRI" /\ geoms[2].type = "TRI"
    /\ geoms[2].triangle_index = 1
    /\ geoms[3].type = "TRI" /\ geoms[3].triangle_index = 0

\* C9: every BVH the scene stores was requested over a buffer all of whose
\* triangles had been baked.
C9_BvhOverBakedTriangles ==
    bvhNode.built =>
        \A t \in DOMAIN bvhNode.over : Len(bvhNode.over[t]) >= 1

C9_Witness ==
    /\ bvhNode.built
    /\ Len(bvhNode.over) = 2
    /\ pc = "objects"

\* C10: when the load has completed, every TRIANGLE primitive's index is a
\* position of the triangle buffer the scene holds, and that triangle was
\* baked with that primitive's transform.
C10_TriangleIndexValid ==
    pc = "done" =>
        \A a \in TriGeoms :
            /\ triangles # NULL
            /\ geoms[a].triangle_index < Len(heap[triangles].tris)
            /\ heap[triangles].tris[geoms[a].triangle_index + 1]
                  = <<geoms[a].transform>>

====
